---- MODULE Spec2Model ----
(***************************************************************************)
(* State-machine model of vec.h: a metadata-prefixed growable array with a *)
(* heap-backed variant (vec) and a fixed, caller-stored variant (svec).    *)
(*                                                                         *)
(* The vector is modelled slot by slot: data[i] is the element stored at   *)
(* byte offset i * elemsize behind the handle, for the slots 0..capacity-1 *)
(* of the allocated block.  The allocator is an oracle: every realloc call *)
(* either fails or returns an address (the same one: resized in place, or  *)
(* another one: the block was moved).                                      *)
(***************************************************************************)
EXTENDS Integers, Sequences, FiniteSets

\* ------------------------------------------------------------------ bounds

\* Width of size_t in the model: size_t arithmetic is taken modulo SizeMod.
SizeMod == 256
\* Operations are explored while the resulting length is at most MaxLen.
MaxLen == 3
\* Growth is explored while the resulting capacity is at most MaxCap.
MaxCap == 8
\* vec_setcapacity is called with cap in 0..MaxCapArg.
MaxCapArg == 3
\* svec_init_w_cap is called with cap in 0..MaxStackCap.
MaxStackCap == 3
\* The allocator serves at most MaxReallocs realloc calls of one operation.
MaxReallocs == 2
\* The longest run of pushes followed by pops that is examined.
MaxRun == 2
\* The example pushes the values 1 .. MaxScript.
MaxScript == 18

\* --------------------------------------------------------------- constants

VEC_INIT_CAP == 8
VEC_ERR_NONE == 0
VEC_ERR_OOM == -1

VEC_ALLOCATION_TYPE_STACK == "stack"
VEC_ALLOCATION_TYPE_HEAP == "heap"

\* The values callers store (plain data), and the zero of `.data = { 0 }`.
Values == {1, 2}
\* A slot of an allocation that was never written: its content is
\* indeterminate, and a read of it may yield any value.
Uninit == -1
AnyValue == {0} \cup Values

\* The caller's copy function copy_fn(dst, src): the destination receives a
\* copy of the source's value.  Every call of it is counted in last.copies.
elem_copy(x) == x

\* Addresses the allocator hands out for the block of a heap vector, and the
\* address of the caller's aggregate of a fixed vector.
HeapAddrs == {1, 2}
StackAddr == 3
\* The outcome of one realloc call: NULL, or the address of the block.
NULL == 0
AllocOutcomes == {NULL} \cup HeapAddrs

\* The arrays handed to vec_append and to svec_init.
Arrays == {<<>>, <<1>>, <<2, 1>>}
InitLists == {<<1>>, <<2, 1>>}

\* ------------------------------------------------------------------- state

VARIABLES
    length,         \* metadata->length
    capacity,       \* metadata->capacity
    elemsize,       \* metadata->elemsize
    allocationType, \* metadata->allocationType
    copy_fn,        \* metadata->copy_fn is set
    destr_fn,       \* metadata->destr_fn is set
    data,           \* the element slots of the block, 0..capacity-1
    v,              \* the caller's handle (*v)
    block,          \* the address of the live block
    status,         \* "ready", or "diverged": a call that never returns
    last,           \* the last call: its result and effects
    ctor,           \* the constructor the vector was made with
    pushes          \* number of calls so far if all were vec_push, else -1

vars == <<length, capacity, elemsize, allocationType, copy_fn, destr_fn,
          data, v, block, status, last, ctor, pushes>>

\* The fields of the vector a call can change.
VecVars == <<length, capacity, data, v, block>>

\* The part of the vector a call can change.
Vec == [length |-> length, capacity |-> capacity, data |-> data, v |-> v,
        block |-> block]

Slots(cap) == 0 .. (cap - 1)

\* (int) of a size_t: the low bits, read as a signed number.
ToInt(x) == IF x >= SizeMod \div 2 THEN x - SizeMod ELSE x

\* The record of a call: the function, its return value, what it wrote to
\* the output destination, how often it called copy_fn, the slots it called
\* destr_fn on (in order), whether it touched memory outside the block,
\* whether it touched the vector through the address of a block that is no
\* longer allocated, and the addresses an iteration visited (in order).
Call(op) == [op |-> op, ret |-> VEC_ERR_NONE, out |-> 0, copies |-> 0,
             destroyed |-> <<>>, oob |-> FALSE, stale |-> FALSE,
             visited |-> <<>>]

\* ------------------------------------------------- allocation and growth

\* realloc of the block to newcap slots: the first min(old, new) slots keep
\* their content, the others are indeterminate.
Resized(d, oldcap, newcap) ==
    [i \in Slots(newcap) |-> IF i < oldcap THEN d[i] ELSE Uninit]

\* A growth rate of 2 instead of 3 / 2.
VEC_GROWTH_RATE_double(c) == (c * 2) % SizeMod

\* capacity * VEC_GROWTH_RATE, i.e. capacity * 3 / 2 in size_t arithmetic.
VEC_GROWTH_RATE(c) == ((c * 3) % SizeMod) \div 2

\* vec_setcapacity without the test of the allocation type.
vec_setcapacity_any_type(m, cap, alloc) ==
    IF m.capacity = cap
    THEN [m |-> m, err |-> VEC_ERR_NONE, reallocs |-> <<>>]
    ELSE IF alloc = NULL
    THEN [m |-> m, err |-> VEC_ERR_OOM, reallocs |-> <<alloc>>]
    ELSE [m |-> [m EXCEPT !.capacity = cap,
                          !.data = Resized(m.data, m.capacity, cap),
                          !.v = alloc,
                          !.block = alloc],
          err |-> VEC_ERR_NONE, reallocs |-> <<alloc>>]

\* vec_setcapacity that stores the new capacity before it tests what realloc
\* returned.
vec_setcapacity_early_store(m, cap, alloc) ==
    IF allocationType = VEC_ALLOCATION_TYPE_STACK
    THEN [m |-> m, err |-> VEC_ERR_OOM, reallocs |-> <<>>]
    ELSE IF m.capacity = cap
    THEN [m |-> m, err |-> VEC_ERR_NONE, reallocs |-> <<>>]
    ELSE IF alloc = NULL
    THEN [m |-> [m EXCEPT !.capacity = cap,
                          !.data = Resized(m.data, m.capacity, cap)],
          err |-> VEC_ERR_OOM, reallocs |-> <<alloc>>]
    ELSE [m |-> [m EXCEPT !.capacity = cap,
                          !.data = Resized(m.data, m.capacity, cap),
                          !.v = alloc,
                          !.block = alloc],
          err |-> VEC_ERR_NONE, reallocs |-> <<alloc>>]

\* vec_setcapacity(v, cap); alloc is what realloc returns if it is called.
vec_setcapacity(m, cap, alloc) ==
    IF allocationType = VEC_ALLOCATION_TYPE_STACK
    THEN [m |-> m, err |-> VEC_ERR_OOM, reallocs |-> <<>>]
    ELSE IF m.capacity = cap
    THEN [m |-> m, err |-> VEC_ERR_NONE, reallocs |-> <<>>]
    ELSE IF alloc = NULL
    THEN [m |-> m, err |-> VEC_ERR_OOM, reallocs |-> <<alloc>>]
    ELSE [m |-> [m EXCEPT !.capacity = cap,
                          !.data = Resized(m.data, m.capacity, cap),
                          !.v = alloc,
                          !.block = alloc],
          err |-> VEC_ERR_NONE, reallocs |-> <<alloc>>]

\* vec_grow(v)
vec_grow(m, alloc) == vec_setcapacity(m, VEC_GROWTH_RATE(m.capacity), alloc)

\* The outcome of the next realloc call of an operation that has made the
\* calls `done`; the allocator is exhausted after the oracle's last entry.
NextAlloc(oracle, done) ==
    IF Len(done) < Len(oracle) THEN oracle[Len(done) + 1] ELSE NULL

\* vec_setlen(v, len): the loop `while(len > metadata->capacity)` from the
\* state m, `done` being the realloc calls made so far; metadata is read
\* anew from *v after each vec_grow (__SYNC_METADATA__).  A pass in which
\* vec_grow reports success and leaves the capacity as it was is followed by
\* an identical pass: the call never returns.
RECURSIVE setlen_loop(_, _, _, _)
setlen_loop(m, len, oracle, done) ==
    IF len > m.capacity
    THEN LET g == vec_grow(m, NextAlloc(oracle, done))
         IN  IF g.err # VEC_ERR_NONE
             THEN [m |-> g.m, err |-> g.err, reallocs |-> done \o g.reallocs,
                   diverged |-> FALSE, stale |-> FALSE]
             ELSE IF g.m.capacity = m.capacity
             THEN [m |-> g.m, err |-> VEC_ERR_NONE,
                   reallocs |-> done \o g.reallocs, diverged |-> TRUE,
                   stale |-> g.m.v # g.m.block]
             ELSE setlen_loop(g.m, len, oracle, done \o g.reallocs)
    ELSE [m |-> [m EXCEPT !.length = len], err |-> VEC_ERR_NONE,
          reallocs |-> done, diverged |-> FALSE, stale |-> m.v # m.block]

vec_setlen(m, len, oracle) == setlen_loop(m, len, oracle, <<>>)

\* ------------------------------------------------------ element lifecycle

\* vec_push that stores the element before it looks at the result of vec_grow.
vec_push_unchecked(m, val, alloc) ==
    LET g == IF m.length = m.capacity
             THEN vec_grow(m, alloc)
             ELSE [m |-> m, err |-> VEC_ERR_NONE, reallocs |-> <<>>]
        dst == g.m.length
        inside == dst < g.m.capacity
        stored == IF copy_fn THEN elem_copy(val) ELSE val
    IN  [m |-> [g.m EXCEPT
                  !.data = IF inside THEN [@ EXCEPT ![dst] = stored] ELSE @,
                  !.length = (@ + 1) % SizeMod],
         ret |-> IF g.err # VEC_ERR_NONE THEN g.err ELSE ToInt(g.m.length),
         copies |-> IF copy_fn THEN 1 ELSE 0,
         reallocs |-> g.reallocs,
         oob |-> ~inside,
         stale |-> g.m.v # g.m.block]

\* vec_push that keeps the metadata pointer it had before vec_grow.
vec_push_no_sync(m, val, alloc) ==
    LET g == IF m.length = m.capacity
             THEN vec_grow(m, alloc)
             ELSE [m |-> m, err |-> VEC_ERR_NONE, reallocs |-> <<>>]
    IN  IF g.err # VEC_ERR_NONE
        THEN [m |-> g.m, ret |-> g.err, copies |-> 0,
              reallocs |-> g.reallocs, oob |-> FALSE, stale |-> FALSE]
        ELSE LET metadata == m.v
                 dst == g.m.length
                 inside == dst < g.m.capacity
                 stored == IF copy_fn THEN elem_copy(val) ELSE val
             IN  [m |-> [g.m EXCEPT
                           !.data = IF inside THEN [@ EXCEPT ![dst] = stored]
                                    ELSE @,
                           !.length = (@ + 1) % SizeMod],
                  ret |-> ToInt(g.m.length),
                  copies |-> IF copy_fn THEN 1 ELSE 0,
                  reallocs |-> g.reallocs,
                  oob |-> ~inside,
                  stale |-> metadata # g.m.block]

\* vec_push(v, val); metadata is read anew from *v after vec_grow
\* (__SYNC_METADATA__), and the element and the length are stored through it.
vec_push(m, val, alloc) ==
    LET g == IF m.length = m.capacity
             THEN vec_grow(m, alloc)
             ELSE [m |-> m, err |-> VEC_ERR_NONE, reallocs |-> <<>>]
    IN  IF g.err # VEC_ERR_NONE
        THEN [m |-> g.m, ret |-> g.err, copies |-> 0,
              reallocs |-> g.reallocs, oob |-> FALSE, stale |-> FALSE]
        ELSE LET metadata == g.m.v
                 dst == g.m.length
                 inside == dst < g.m.capacity
                 stored == IF copy_fn THEN elem_copy(val) ELSE val
             IN  [m |-> [g.m EXCEPT
                           !.data = IF inside THEN [@ EXCEPT ![dst] = stored]
                                    ELSE @,
                           !.length = (@ + 1) % SizeMod],
                  ret |-> ToInt(g.m.length),
                  copies |-> IF copy_fn THEN 1 ELSE 0,
                  reallocs |-> g.reallocs,
                  oob |-> ~inside,
                  stale |-> metadata # g.m.block]

\* vec_append that computes dst from the length vec_setlen has just set.
vec_append_new_len(m, arr, oracle) ==
    LET size == Len(arr)
        old_len == m.length
        req_len == (old_len + size) % SizeMod
        s == vec_setlen(m, req_len, oracle)
    IN  IF s.diverged \/ s.err # VEC_ERR_NONE
        THEN [m |-> s.m, ret |-> s.err, reallocs |-> s.reallocs,
              oob |-> FALSE, diverged |-> s.diverged, stale |-> s.stale]
        ELSE [m |-> s.m,
              ret |-> ToInt(old_len), reallocs |-> s.reallocs,
              oob |-> size > 0, diverged |-> FALSE,
              stale |-> s.stale \/ s.m.v # s.m.block]

\* vec_append(v, arr, size), size being the number of elements of arr
vec_append(m, arr, oracle) ==
    LET size == Len(arr)
        old_len == m.length
        req_len == (old_len + size) % SizeMod
        s == vec_setlen(m, req_len, oracle)
    IN  IF s.diverged \/ s.err # VEC_ERR_NONE
        THEN [m |-> s.m, ret |-> s.err, reallocs |-> s.reallocs,
              oob |-> FALSE, diverged |-> s.diverged, stale |-> s.stale]
        ELSE [m |-> [s.m EXCEPT !.data =
                       [i \in DOMAIN @ |->
                          IF i >= old_len /\ i < old_len + size
                          THEN arr[i - old_len + 1] ELSE @[i]]],
              ret |-> ToInt(old_len), reallocs |-> s.reallocs,
              oob |-> size > 0 /\ old_len + size > s.m.capacity,
              diverged |-> FALSE,
              stale |-> s.stale \/ s.m.v # s.m.block]

\* vec_pop that takes the element off only when it has copied it out.
vec_pop_keep_destroyed(m, has_out, x) ==
    LET idx == (m.length - 1) % SizeMod
        inside == idx < m.capacity
        src == IF inside /\ m.data[idx] # Uninit THEN m.data[idx] ELSE x
    IN  [m |-> IF has_out THEN [m EXCEPT !.length = idx] ELSE m,
         ret |-> VEC_ERR_NONE,
         out |-> IF has_out
                 THEN (IF copy_fn THEN elem_copy(src) ELSE src) ELSE 0,
         copies |-> IF has_out /\ copy_fn THEN 1 ELSE 0,
         destroyed |-> IF ~has_out /\ destr_fn THEN <<idx>> ELSE <<>>,
         oob |-> ~inside /\ (has_out \/ destr_fn)]

\* vec_pop(v, out); x is the value a read of indeterminate memory yields.
vec_pop(m, has_out, x) ==
    LET idx == (m.length - 1) % SizeMod
        inside == idx < m.capacity
        src == IF inside /\ m.data[idx] # Uninit THEN m.data[idx] ELSE x
    IN  [m |-> [m EXCEPT !.length = idx],
         ret |-> VEC_ERR_NONE,
         out |-> IF has_out
                 THEN (IF copy_fn THEN elem_copy(src) ELSE src) ELSE 0,
         copies |-> IF has_out /\ copy_fn THEN 1 ELSE 0,
         destroyed |-> IF ~has_out /\ destr_fn THEN <<idx>> ELSE <<>>,
         oob |-> ~inside /\ (has_out \/ destr_fn)]

\* vec_clear whose loop stops one element short of the end.
vec_clear_short(m) ==
    [m |-> [m EXCEPT !.length = 0],
     ret |-> 0,
     destroyed |-> IF destr_fn THEN [i \in 1 .. m.length - 1 |-> i - 1]
                   ELSE <<>>,
     oob |-> destr_fn /\ m.length > m.capacity]

\* vec_clear(v)
vec_clear(m) ==
    [m |-> [m EXCEPT !.length = 0],
     ret |-> 0,
     destroyed |-> IF destr_fn THEN [i \in 1 .. m.length |-> i - 1] ELSE <<>>,
     oob |-> destr_fn /\ m.length > m.capacity]

\* vec_fini that frees the block whatever the allocation type.
vec_fini_free_any(m) ==
    [m |-> [m EXCEPT !.block = NULL],
     destroyed |-> IF destr_fn THEN [i \in 1 .. m.length |-> i - 1] ELSE <<>>,
     oob |-> destr_fn /\ m.length > m.capacity]

\* vec_fini(v): destr_fn on every element from vec_iter_begin up to
\* vec_iter_end, then free(metadata) for the heap type; no block is live
\* after the free.
vec_fini(m) ==
    [m |-> [m EXCEPT !.block =
              IF allocationType = VEC_ALLOCATION_TYPE_HEAP THEN NULL ELSE @],
     destroyed |-> IF destr_fn THEN [i \in 1 .. m.length |-> i - 1] ELSE <<>>,
     oob |-> destr_fn /\ m.length > m.capacity]

\* vec_len(v)
vec_len(m) == m.length

\* vec_capacity(v)
vec_capacity(m) == m.capacity

\* ---------------------------------------------------------------- iterators

\* The byte address of the first slot of the block a handle designates;
\* blocks lie a quarter of the address space apart.
SlotAddress(a) == a * (SizeMod \div 4)

\* vec_iter_begin(v)
vec_iter_begin(m) == SlotAddress(m.v)

\* vec_iter_end(v): elemsize * length is a size_t product.
vec_iter_end(m) ==
    (SlotAddress(m.v) + ((elemsize * m.length) % SizeMod)) % SizeMod

\* vec_iter_next that steps one byte.
vec_iter_next_byte(iter) == (iter + 1) % SizeMod

\* vec_iter_next(v, &iter)
vec_iter_next(iter) == (iter + elemsize) % SizeMod

\* for (it = vec_iter_begin(v); it != vec_iter_end(v); vec_iter_next(v, &it)),
\* the loop of vec_fini and vec_clear: the addresses it visits, in order.  A
\* loop that has come back to an address it has visited never ends.
RECURSIVE iterate(_, _, _)
iterate(m, iter, visited) ==
    IF iter = vec_iter_end(m)
    THEN [visited |-> visited, diverged |-> FALSE]
    ELSE IF \E i \in 1 .. Len(visited) : visited[i] = iter
    THEN [visited |-> visited, diverged |-> TRUE]
    ELSE iterate(m, vec_iter_next(iter), Append(visited, iter))

\* ------------------------------------------------------------ construction

ElemSizes == {4}

\* The (copy, destr) arguments of the three forms of vec_init: vec_init(T),
\* vec_init(T, destr) and vec_init(T, cpy, destr).
InitForms == {<<FALSE, FALSE>>, <<FALSE, TRUE>>, <<TRUE, TRUE>>}

\* vec_init_impl(elemsize, copy, destr), malloc having succeeded
vec_init_impl(es, copy, destr, addr) ==
    /\ length = 0
    /\ capacity = VEC_INIT_CAP
    /\ elemsize = es
    /\ allocationType = VEC_ALLOCATION_TYPE_HEAP
    /\ copy_fn = copy
    /\ destr_fn = destr
    /\ data = [i \in Slots(VEC_INIT_CAP) |-> Uninit]
    /\ v = addr
    /\ block = addr
    /\ last = Call("vec_init")
    /\ ctor = "vec_init"

\* svec_init(type, { ... })
svec_init(es, list) ==
    /\ length = Len(list)
    /\ capacity = Len(list)
    /\ elemsize = es
    /\ allocationType = VEC_ALLOCATION_TYPE_STACK
    /\ copy_fn = FALSE
    /\ destr_fn = FALSE
    /\ data = [i \in Slots(Len(list)) |-> list[i + 1]]
    /\ v = StackAddr
    /\ block = StackAddr
    /\ last = Call("svec_init")
    /\ ctor = "svec_init"

\* svec_init_w_cap(type, cap)
svec_init_w_cap(es, cap) ==
    /\ length = 0
    /\ capacity = cap
    /\ elemsize = es
    /\ allocationType = VEC_ALLOCATION_TYPE_STACK
    /\ copy_fn = FALSE
    /\ destr_fn = FALSE
    /\ data = [i \in Slots(cap) |-> 0]
    /\ v = StackAddr
    /\ block = StackAddr
    /\ last = Call("svec_init_w_cap")
    /\ ctor = "svec_init_w_cap"

Init ==
    /\ status = "ready"
    /\ pushes = 0
    /\ \E es \in ElemSizes :
         \/ \E fns \in InitForms, addr \in HeapAddrs :
              vec_init_impl(es, fns[1], fns[2], addr)
         \/ \E list \in InitLists : svec_init(es, list)
         \/ \E cap \in 0 .. MaxStackCap : svec_init_w_cap(es, cap)

\* ------------------------------------------------------------------- calls

\* What the realloc calls of one vec_setlen or vec_append return, in order:
\* one outcome for each call the loop makes if every call succeeds, the
\* allocator serving at most MaxReallocs of them.
RECURSIVE ReallocCalls(_, _, _)
ReallocCalls(cap, len, served) ==
    IF served < MaxReallocs /\ len > cap /\ VEC_GROWTH_RATE(cap) # cap
    THEN ReallocCalls(VEC_GROWTH_RATE(cap), len, served + 1) ELSE served

Oracles(len) ==
    IF allocationType = VEC_ALLOCATION_TYPE_HEAP
    THEN [1 .. ReallocCalls(capacity, len, 0) -> AllocOutcomes]
    ELSE {<<>>}

\* What a vec_pop may read from the slot below the length: the value stored
\* there, or any value if the slot is indeterminate or outside the block.
Reads(has_out) ==
    LET idx == (length - 1) % SizeMod
    IN  IF has_out /\ (idx >= capacity \/ data[idx] = Uninit)
        THEN AnyValue ELSE {0}

\* The states explored: lengths up to MaxLen, capacities up to MaxCap.
Explored(m) == m.length <= MaxLen /\ m.capacity <= MaxCap

\* The call returns (or, diverged, never does) leaving the vector as m.
Commit(m, call, diverged) ==
    /\ length' = m.length
    /\ capacity' = m.capacity
    /\ data' = m.data
    /\ v' = m.v
    /\ block' = m.block
    /\ last' = call
    /\ status' = IF diverged THEN "diverged" ELSE "ready"
    /\ pushes' = IF call.op = "vec_push" /\ pushes \in 0 .. MaxLen
                 THEN pushes + 1 ELSE -1
    /\ UNCHANGED <<elemsize, allocationType, copy_fn, destr_fn, ctor>>

VecPush(val, alloc) ==
    /\ status = "ready"
    /\ LET r == vec_push(Vec, val, alloc)
       IN  /\ Explored(r.m)
           /\ Commit(r.m, [Call("vec_push") EXCEPT
                             !.ret = r.ret, !.copies = r.copies,
                             !.oob = r.oob, !.stale = r.stale], FALSE)

VecAppend(arr, oracle) ==
    /\ status = "ready"
    /\ LET r == vec_append(Vec, arr, oracle)
       IN  /\ Explored(r.m)
           /\ Commit(r.m, [Call("vec_append") EXCEPT
                             !.ret = r.ret, !.oob = r.oob,
                             !.stale = r.stale], r.diverged)

PopCall(has_out, x) ==
    LET r == vec_pop(Vec, has_out, x)
    IN  Commit(r.m, [Call("vec_pop") EXCEPT
                       !.ret = r.ret, !.out = r.out,
                       !.copies = r.copies, !.destroyed = r.destroyed,
                       !.oob = r.oob], FALSE)

\* vec_pop on a vector that holds an element
VecPop(has_out, x) ==
    /\ status = "ready"
    /\ length \in 1 .. MaxLen
    /\ PopCall(has_out, x)

\* vec_pop on an empty vector
VecPopEmpty(has_out, x) ==
    /\ status = "ready"
    /\ length = 0
    /\ PopCall(has_out, x)

VecClear ==
    /\ status = "ready"
    /\ LET r == vec_clear(Vec)
       IN  Commit(r.m, [Call("vec_clear") EXCEPT
                          !.ret = r.ret, !.destroyed = r.destroyed,
                          !.oob = r.oob], FALSE)

VecSetLen(n, oracle) ==
    /\ status = "ready"
    /\ LET r == vec_setlen(Vec, n, oracle)
       IN  /\ Explored(r.m)
           /\ Commit(r.m, [Call("vec_setlen") EXCEPT
                             !.ret = r.err, !.stale = r.stale], r.diverged)

SetCapacityCall(cap, alloc) ==
    LET r == vec_setcapacity(Vec, cap, alloc)
    IN  Commit(r.m, [Call("vec_setcapacity") EXCEPT !.ret = r.err], FALSE)

\* vec_setcapacity with room for the elements held
VecSetCapacity(cap, alloc) ==
    /\ status = "ready"
    /\ cap >= length
    /\ SetCapacityCall(cap, alloc)

\* vec_setcapacity below the length
VecSetCapacityBelow(cap, alloc) ==
    /\ status = "ready"
    /\ cap < length
    /\ length <= MaxLen
    /\ SetCapacityCall(cap, alloc)

VecGrow(alloc) ==
    /\ status = "ready"
    /\ LET r == vec_grow(Vec, alloc)
       IN  /\ Explored(r.m)
           /\ Commit(r.m, [Call("vec_grow") EXCEPT !.ret = r.err], FALSE)

\* Callers that keep the preconditions of vec_pop and vec_setcapacity.
Next ==
    \/ \E val \in Values, alloc \in AllocOutcomes : VecPush(val, alloc)
    \/ \E arr \in Arrays :
         \E oracle \in Oracles((length + Len(arr)) % SizeMod) :
           VecAppend(arr, oracle)
    \/ \E has_out \in BOOLEAN : \E x \in Reads(has_out) : VecPop(has_out, x)
    \/ VecClear
    \/ \E n \in 0 .. MaxLen + 1 : \E oracle \in Oracles(n) :
         VecSetLen(n, oracle)
    \/ \E cap \in 0 .. MaxCapArg, alloc \in AllocOutcomes :
         VecSetCapacity(cap, alloc)
    \/ \E alloc \in AllocOutcomes : VecGrow(alloc)

Spec == Init /\ [][Next]_vars

\* Any caller.
NextAny ==
    \/ Next
    \/ \E has_out \in BOOLEAN : \E x \in Reads(has_out) :
         VecPopEmpty(has_out, x)
    \/ \E cap \in 0 .. MaxCapArg, alloc \in AllocOutcomes :
         VecSetCapacityBelow(cap, alloc)

SpecAny == Init /\ [][NextAny]_vars

\* ------------------------------------------------------------ properties

\* C1: the descriptor satisfies 0 <= length <= capacity in every state
\* reached by callers that keep the preconditions of vec_pop and
\* vec_setcapacity.
C1_LengthWithinCapacity == 0 <= length /\ length <= capacity

\* C2: a vec_push that succeeds on a vector of length L stores the pushed
\* value in slot L (calling copy_fn once if it is set, never otherwise),
\* leaves the slots 0..L-1 as they were, makes the length L+1 and returns L.
C2_PushStoresAtLength ==
    [][\A val \in Values, alloc \in AllocOutcomes :
         (/\ last'.op = "vec_push"
          /\ VecPush(val, alloc)
          /\ last'.ret # VEC_ERR_OOM) =>
            /\ length \in DOMAIN data'
            /\ data'[length] = val
            /\ \A i \in 0 .. length - 1 : data'[i] = data[i]
            /\ length' = length + 1
            /\ last'.ret = length
            /\ last'.copies = (IF copy_fn THEN 1 ELSE 0)]_vars

\* C3: a vec_push called with length = capacity whose growth attempt fails
\* returns VEC_ERR_OOM and leaves length, capacity, the elements and the
\* handle as they were, without calling copy_fn or writing to the buffer.
C3_PushOomLeavesVector ==
    [][\A val \in Values, alloc \in AllocOutcomes :
         (/\ last'.op = "vec_push"
          /\ VecPush(val, alloc)
          /\ length = capacity
          /\ vec_grow(Vec, alloc).err # VEC_ERR_NONE) =>
            /\ last'.ret = VEC_ERR_OOM
            /\ UNCHANGED VecVars
            /\ last'.copies = 0
            /\ ~last'.oob]_vars

\* A heap vector that is full and holds an element, after a vec_push that
\* returned VEC_ERR_OOM.
C3_Witness ==
    /\ last.op = "vec_push"
    /\ last.ret = VEC_ERR_OOM
    /\ allocationType = VEC_ALLOCATION_TYPE_HEAP
    /\ length = capacity
    /\ length > 1

\* C4: a fixed vector made by svec_init_w_cap(type, C) accepts exactly C
\* pushes: of the vec_push calls that follow its construction, the n-th
\* succeeds (returns n-1, length n) for n <= C, and the (C+1)-th returns
\* VEC_ERR_OOM with the length left at C.
C4_FixedAcceptsExactlyCap ==
    (ctor = "svec_init_w_cap" /\ pushes >= 1) =>
        IF pushes <= capacity
        THEN last.ret = pushes - 1 /\ length = pushes
        ELSE last.ret = VEC_ERR_OOM /\ length = capacity

\* A fixed vector of capacity C >= 2 after C+1 pushes.
C4_Witness ==
    /\ ctor = "svec_init_w_cap"
    /\ capacity >= 2
    /\ pushes = capacity + 1
    /\ length = capacity
    /\ last.ret = VEC_ERR_OOM

\* C5: on a fixed vector no call changes the capacity; vec_setcapacity (for
\* every cap, cap = capacity included) and vec_grow return VEC_ERR_OOM and
\* change nothing, and vec_setlen(n) with n > capacity returns VEC_ERR_OOM
\* and leaves the length as it was.
C5_FixedCapacityImmutable ==
    [][allocationType = VEC_ALLOCATION_TYPE_STACK =>
         /\ capacity' = capacity
         /\ \A cap \in 0 .. MaxCapArg, alloc \in AllocOutcomes :
              (/\ last'.op = "vec_setcapacity"
               /\ status = "ready"
               /\ SetCapacityCall(cap, alloc)) =>
                 (last'.ret = VEC_ERR_OOM /\ UNCHANGED VecVars)
         /\ \A alloc \in AllocOutcomes :
              (last'.op = "vec_grow" /\ VecGrow(alloc)) =>
                 (last'.ret = VEC_ERR_OOM /\ UNCHANGED VecVars)
         /\ \A n \in 0 .. MaxLen + 1 : \A oracle \in Oracles(n) :
              (last'.op = "vec_setlen" /\ VecSetLen(n, oracle)
                 /\ n > capacity) =>
                 (last'.ret = VEC_ERR_OOM /\ length' = length)]_vars

\* A fixed vector holding an element, after a vec_setcapacity call.
C5_Witness ==
    /\ allocationType = VEC_ALLOCATION_TYPE_STACK
    /\ last.op = "vec_setcapacity"
    /\ last.ret = VEC_ERR_OOM
    /\ length >= 1

\* C6: a vec_grow call on a heap vector that returns VEC_ERR_NONE leaves the
\* capacity strictly greater than it was.
C6_GrowMakesProgress ==
    [][\A alloc \in AllocOutcomes :
         (/\ last'.op = "vec_grow"
          /\ VecGrow(alloc)
          /\ allocationType = VEC_ALLOCATION_TYPE_HEAP
          /\ last'.ret = VEC_ERR_NONE) => capacity' > capacity]_vars

\* C7: a vec_setcapacity or vec_grow call on a heap vector whose realloc
\* fails returns VEC_ERR_OOM and leaves capacity, length, the elements and
\* the handle as they were; the vector stays usable and vec_push, vec_pop,
\* vec_clear and vec_setlen do afterwards what they would have done before.
C7_FailedReallocLeavesVector ==
    [][(/\ allocationType = VEC_ALLOCATION_TYPE_HEAP
        /\ status = "ready"
        /\ \/ /\ last'.op = "vec_setcapacity"
              /\ \E cap \in 0 .. MaxCapArg :
                   cap # capacity /\ SetCapacityCall(cap, NULL)
           \/ /\ last'.op = "vec_grow"
              /\ VEC_GROWTH_RATE(capacity) # capacity
              /\ VecGrow(NULL)) =>
         /\ last'.ret = VEC_ERR_OOM
         /\ UNCHANGED VecVars
         /\ status' = "ready"
         /\ \A val \in Values :
              vec_push(Vec', val, NULL) = vec_push(Vec, val, NULL)
         /\ \A has_out \in BOOLEAN :
              vec_pop(Vec', has_out, 0) = vec_pop(Vec, has_out, 0)
         /\ vec_clear(Vec') = vec_clear(Vec)
         /\ \A n \in 0 .. capacity :
              vec_setlen(Vec', n, <<>>) = vec_setlen(Vec, n, <<>>)]_vars

\* A heap vector holding an element, after a vec_grow whose realloc failed.
C7_Witness ==
    /\ allocationType = VEC_ALLOCATION_TYPE_HEAP
    /\ last.op = "vec_grow"
    /\ last.ret = VEC_ERR_OOM
    /\ length >= 1

\* C8: a vec_append that fails returns VEC_ERR_OOM and leaves length,
\* capacity and the elements as they were.
C8_AppendOomLeavesVector ==
    [][\A arr \in Arrays :
         \A oracle \in Oracles((length + Len(arr)) % SizeMod) :
           (/\ last'.op = "vec_append"
            /\ VecAppend(arr, oracle)
            /\ status' = "ready"
            /\ last'.ret = VEC_ERR_OOM) =>
              UNCHANGED <<length, capacity, data>>]_vars

\* C9: a vec_append(v, arr, size) that succeeds on a vector of length L
\* returns L, makes the length L + size, stores arr[0..size-1] in order in
\* the slots L..L+size-1, leaves the slots 0..L-1 as they were and never
\* calls copy_fn.
C9_AppendStoresArray ==
    [][\A arr \in Arrays :
         \A oracle \in Oracles((length + Len(arr)) % SizeMod) :
           (/\ last'.op = "vec_append"
            /\ VecAppend(arr, oracle)
            /\ status' = "ready"
            /\ last'.ret # VEC_ERR_OOM) =>
              /\ last'.ret = length
              /\ length' = length + Len(arr)
              /\ \A i \in 1 .. Len(arr) :
                   /\ length + i - 1 \in DOMAIN data'
                   /\ data'[length + i - 1] = arr[i]
              /\ \A i \in 0 .. length - 1 : data'[i] = data[i]
              /\ last'.copies = 0]_vars

\* A vector made with a copy function, after a vec_append of two elements
\* behind one it already held.
C9_Witness ==
    /\ copy_fn
    /\ last.op = "vec_append"
    /\ last.ret >= 1
    /\ length = last.ret + 2
    /\ status = "ready"

\* C10: a vec_pop on a vector of length 0 does not report success.
C10_EmptyPopReported ==
    [][\A has_out \in BOOLEAN : \A x \in Reads(has_out) :
         (last'.op = "vec_pop" /\ VecPopEmpty(has_out, x)) =>
            last'.ret # VEC_ERR_NONE]_vars

\* C11: every vec_pop on a vector of length L > 0 leaves the length at L - 1,
\* the capacity and the slots as they were; with an output destination the
\* element of slot L - 1 is copied to it (by copy_fn if set, else raw) and
\* destr_fn is not called; with no output destination destr_fn, if set, is
\* called exactly once, on slot L - 1.  A slot that was never written has no
\* value to compare with.
C11_PopRemovesLast ==
    [][\A has_out \in BOOLEAN : \A x \in Reads(has_out) :
         (last'.op = "vec_pop" /\ VecPop(has_out, x)) =>
            /\ length' = length - 1
            /\ capacity' = capacity
            /\ data' = data
            /\ last'.ret = VEC_ERR_NONE
            /\ has_out =>
                 /\ length - 1 \in DOMAIN data
                 /\ data[length - 1] # Uninit =>
                      last'.out = data[length - 1]
                 /\ last'.copies = (IF copy_fn THEN 1 ELSE 0)
                 /\ last'.destroyed = <<>>
            /\ ~has_out =>
                 /\ last'.destroyed =
                      (IF destr_fn THEN <<length - 1>> ELSE <<>>)
                 /\ last'.copies = 0]_vars

\* What vec_pop may read from the slot below the length of m.
ReadsOf(m) ==
    LET idx == (m.length - 1) % SizeMod
    IN  IF idx >= m.capacity \/ m.data[idx] = Uninit THEN AnyValue ELSE {0}

\* C12: for a vector without copy_fn and every value x, a vec_push(x) that
\* succeeds, immediately followed by a vec_pop with an output destination,
\* writes x to the destination and leaves the length and the slots below it
\* as they were before the push, also when the push moved the block.
C12_PushPopRoundTrip ==
    (status = "ready" /\ ~copy_fn) =>
        \A x \in Values, alloc \in AllocOutcomes :
          LET p == vec_push(Vec, x, alloc)
          IN  p.ret # VEC_ERR_OOM =>
                \A y \in ReadsOf(p.m) :
                  LET q == vec_pop(p.m, TRUE, y)
                  IN  /\ q.ret = VEC_ERR_NONE
                      /\ q.out = x
                      /\ q.m.length = length
                      /\ \A i \in Slots(length) :
                           i \in DOMAIN data =>
                             /\ i \in DOMAIN q.m.data
                             /\ q.m.data[i] = data[i]

\* The vec_push calls of vals, one after the other, from m; allocs[i] is what
\* realloc returns to the i-th of them.  ok: every call succeeded; caps: the
\* capacity before the first call and after each call.
RECURSIVE PushRun(_, _, _)
PushRun(m, vals, allocs) ==
    IF vals = <<>>
    THEN [m |-> m, ok |-> TRUE, caps |-> <<m.capacity>>]
    ELSE LET p == vec_push(m, Head(vals), Head(allocs))
             r == PushRun(p.m, Tail(vals), Tail(allocs))
         IN  IF p.ret = VEC_ERR_OOM
             THEN [m |-> p.m, ok |-> FALSE, caps |-> <<m.capacity>>]
             ELSE [m |-> r.m, ok |-> r.ok, caps |-> <<m.capacity>> \o r.caps]

\* n calls of vec_pop(v, NULL), one after the other, from m.
RECURSIVE PopRun(_, _)
PopRun(m, n) ==
    IF n = 0
    THEN [m |-> m, caps |-> <<m.capacity>>]
    ELSE LET q == vec_pop(m, FALSE, 0)
             r == PopRun(q.m, n - 1)
         IN  [m |-> r.m, caps |-> <<m.capacity>> \o r.caps]

NonDecreasing(s) == \A i \in 1 .. Len(s) - 1 : s[i] <= s[i + 1]

\* Callers that push, pop and set the capacity.
NextRuns ==
    \/ \E val \in Values, alloc \in AllocOutcomes : VecPush(val, alloc)
    \/ \E has_out \in BOOLEAN : \E x \in Reads(has_out) : VecPop(has_out, x)
    \/ \E cap \in 0 .. MaxCapArg, alloc \in AllocOutcomes :
         VecSetCapacity(cap, alloc)

SpecRuns == Init /\ [][NextRuns]_vars

\* C13: from every vector state and for every N, N successful vec_push
\* calls followed by N vec_pop calls without output destination return the
\* length to what it was before, and the capacity decreases at no step.
C13_PushesThenPops ==
    status = "ready" =>
        \A n \in 0 .. MaxRun :
          \A vals \in [1 .. n -> Values], allocs \in [1 .. n -> AllocOutcomes] :
            LET a == PushRun(Vec, vals, allocs)
                b == PopRun(a.m, n)
            IN  a.ok =>
                  /\ a.m.length = length + n
                  /\ b.m.length = length
                  /\ NonDecreasing(a.caps \o b.caps)

\* A growable vector that elements have been pushed to and popped from, with
\* room for one more element: the second push of a run grows the block.
C13_Witness ==
    /\ status = "ready"
    /\ allocationType = VEC_ALLOCATION_TYPE_HEAP
    /\ last.op = "vec_pop"
    /\ last.destroyed # <<>>
    /\ length + 1 = capacity
    /\ PushRun(Vec, <<1, 2>>, <<1, 2>>).ok
    /\ PushRun(Vec, <<1, 2>>, <<1, 2>>).m.capacity > capacity

\* ------------------------------------------- the example: pushing 1, 2, ...

\* vec_init(int), vec_init(int, destr) or vec_init(int, cpy, destr)
InitExample ==
    /\ status = "ready"
    /\ pushes = 0
    /\ \E es \in ElemSizes, fns \in InitForms, addr \in HeapAddrs :
         vec_init_impl(es, fns[1], fns[2], addr)

\* The next push of the example: the value length + 1, realloc not failing.
ExamplePush(alloc) ==
    /\ status = "ready"
    /\ length < MaxScript
    /\ LET r == vec_push(Vec, length + 1, alloc)
       IN  Commit(r.m, [Call("vec_push") EXCEPT
                          !.ret = r.ret, !.copies = r.copies,
                          !.oob = r.oob, !.stale = r.stale], FALSE)

NextExample == \E alloc \in HeapAddrs : ExamplePush(alloc)

SpecExample == InitExample /\ [][NextExample]_vars

\* C14 as stated: after the pushes of 1..10 to a fresh heap vector, none
\* failing, the capacity has grown twice, 8 -> 12 -> 18, the length is 10
\* and the capacity at least 10.
C14_TwoGrowths ==
    length = 10 => (capacity = 18 /\ capacity >= 10)

\* C14, amended: the pushes of 1..10 to a fresh heap vector, none failing,
\* grow the capacity once, 8 -> 12 at the ninth push, and end with length 10,
\* capacity 12 and the values 1..10 in the slots 0..9; the growth 12 -> 18
\* happens at the thirteenth push.
C14_OneGrowth ==
    /\ length <= 8 => capacity = VEC_INIT_CAP
    /\ length \in 9 .. 12 => capacity = 12
    /\ length \in 13 .. 18 => capacity = 18
    /\ length = 10 => (capacity >= 10 /\ last.ret = 9 /\ ~last.oob)
    /\ length <= 18 =>
         \A i \in Slots(length) : i \in DOMAIN data /\ data[i] = i + 1

C14_Witness ==
    /\ ctor = "vec_init"
    /\ last.op = "vec_push"
    /\ length = 10
    /\ capacity = 12
    /\ data[9] = 10

\* C15: vec_clear on a vector of length L calls destr_fn, if set, exactly
\* once on each of the slots 0..L-1, in that order, and on no other slot, and
\* sets the length to 0; the capacity, the handle, the block, the allocation
\* type, the element size and the two function pointers stay as they were;
\* afterwards vec_len returns 0 and vec_capacity the capacity from before.
C15_ClearDestroysAll ==
    [][(last'.op = "vec_clear" /\ VecClear) =>
         /\ last'.ret = 0
         /\ IF destr_fn
            THEN /\ Len(last'.destroyed) = length
                 /\ \A i \in 1 .. length : last'.destroyed[i] = i - 1
            ELSE last'.destroyed = <<>>
         /\ length' = 0
         /\ UNCHANGED <<capacity, v, block, data, elemsize, allocationType,
                        copy_fn, destr_fn>>
         /\ vec_len(Vec)' = 0
         /\ vec_capacity(Vec)' = vec_capacity(Vec)]_vars

C15_Witness ==
    /\ last.op = "vec_clear"
    /\ destr_fn
    /\ Len(last.destroyed) >= 2
    /\ length = 0
    /\ capacity = VEC_INIT_CAP

\* C16: on a heap vector of length L and for every cap >= L, a
\* vec_setcapacity(cap) whose allocation succeeds returns VEC_ERR_NONE and
\* leaves the capacity at exactly cap, with the length, the elements of the
\* slots 0..L-1, the element size, the allocation type and the two function
\* pointers as they were, whether or not the block moved.
C16_SetCapacityKeepsElements ==
    [][\A cap \in 0 .. MaxCapArg, alloc \in HeapAddrs :
         (/\ last'.op = "vec_setcapacity"
          /\ allocationType = VEC_ALLOCATION_TYPE_HEAP
          /\ VecSetCapacity(cap, alloc)) =>
            /\ last'.ret = VEC_ERR_NONE
            /\ capacity' = cap
            /\ length' = length
            /\ \A i \in Slots(length) :
                 /\ i \in DOMAIN data
                 /\ i \in DOMAIN data'
                 /\ data'[i] = data[i]
            /\ UNCHANGED <<elemsize, allocationType, copy_fn, destr_fn>>]_vars

\* --------------------------------------------------- the end of the vector

\* vec_fini(v); no call follows it.
VecFini ==
    /\ status = "ready"
    /\ LET r == vec_fini(Vec)
       IN  /\ block' = r.m.block
           /\ last' = [Call("vec_fini") EXCEPT
                         !.destroyed = r.destroyed, !.oob = r.oob]
    /\ status' = "finished"
    /\ pushes' = -1
    /\ UNCHANGED <<length, capacity, data, v, elemsize, allocationType,
                   copy_fn, destr_fn, ctor>>

\* An iteration over the vector, from vec_iter_begin to vec_iter_end.
VecIterate ==
    /\ status = "ready"
    /\ LET r == iterate(Vec, vec_iter_begin(Vec), <<>>)
       IN  Commit(Vec, [Call("vec_iter") EXCEPT !.visited = r.visited],
                  r.diverged)

\* The callers of Next, who also iterate and end with vec_fini.
NextLife ==
    \/ Next
    \/ VecIterate
    \/ VecFini

SpecLife == Init /\ [][NextLife]_vars

\* C17: vec_fini on a vector of length L calls destr_fn, if set, exactly
\* once on each of the slots 0..L-1 and on no other slot (so on no element
\* that was popped or cleared before), and then frees the block if and only
\* if the vector is of the heap type: the storage of a fixed vector stays.
C17_FiniDestroysAndFrees ==
    [][(last'.op = "vec_fini" /\ VecFini) =>
         /\ IF destr_fn
            THEN /\ Len(last'.destroyed) = length
                 /\ \A i \in 1 .. length : last'.destroyed[i] = i - 1
            ELSE last'.destroyed = <<>>
         /\ allocationType = VEC_ALLOCATION_TYPE_HEAP => block' = NULL
         /\ allocationType = VEC_ALLOCATION_TYPE_STACK =>
              (block' = block /\ block' = StackAddr)]_vars

\* A fixed vector that was finished with its storage still in place.
C17_Witness ==
    /\ status = "finished"
    /\ last.op = "vec_fini"
    /\ allocationType = VEC_ALLOCATION_TYPE_STACK
    /\ block = StackAddr
    /\ length >= 1

\* C18: vec_setlen(n) always returns.  On a heap vector with n > capacity,
\* whatever the capacity (0 and 1 included), it returns after finitely many
\* growth steps, either VEC_ERR_NONE with capacity >= n and length = n, or
\* VEC_ERR_OOM with the length as it was; with n <= capacity it sets the
\* length to n, leaves the capacity and calls destr_fn on no element.
C18_SetLenTerminates ==
    [][\A n \in 0 .. MaxLen + 1 : \A oracle \in Oracles(n) :
         (last'.op = "vec_setlen" /\ VecSetLen(n, oracle)) =>
            /\ status' = "ready"
            /\ last'.ret \in {VEC_ERR_NONE, VEC_ERR_OOM}
            /\ last'.ret = VEC_ERR_NONE => (capacity' >= n /\ length' = n)
            /\ last'.ret = VEC_ERR_OOM => length' = length
            /\ n <= capacity =>
                 /\ last'.ret = VEC_ERR_NONE
                 /\ length' = n
                 /\ capacity' = capacity
                 /\ last'.destroyed = <<>>]_vars

\* C19: after every vec_push, vec_append, vec_setlen, vec_setcapacity and
\* vec_grow, successful or not, the caller's handle designates the block that
\* is allocated, and the call has read and written the length, the capacity
\* and the slots through no address of a block that realloc has released.
C19_HandleIsLive ==
    /\ block # NULL
    /\ v = block
    /\ ~last.stale

\* A push that grew the block, realloc returning either address.
C19_Witness ==
    /\ allocationType = VEC_ALLOCATION_TYPE_HEAP
    /\ last.op = "vec_push"
    /\ last.ret = 2
    /\ length = 3
    /\ capacity = 3
    /\ v = 2

\* C20: on a vector of length L that is not changed meanwhile, the iteration
\* from vec_iter_begin by vec_iter_next until vec_iter_end is reached ends
\* after exactly L steps, having visited the slots 0, 1, ..., L-1 in this
\* order, each once; for L = 0 begin equals end and no slot is visited.
C20_IterationVisitsAll ==
    [][(last'.op = "vec_iter" /\ VecIterate /\ elemsize > 0) =>
         /\ status' = "ready"
         /\ Len(last'.visited) = length
         /\ \A i \in 1 .. length :
              last'.visited[i] = SlotAddress(v) + (i - 1) * elemsize
         /\ length = 0 => vec_iter_begin(Vec) = vec_iter_end(Vec)
         /\ UNCHANGED VecVars]_vars

C20_Witness ==
    /\ last.op = "vec_iter"
    /\ status = "ready"
    /\ length = MaxLen
    /\ Len(last.visited) = MaxLen

====
